---- MODULE Spec2Model ----
(***************************************************************************)
(* A model of the cortex-lattice test runner, src/executor/run_tests.py:   *)
(* one process that loads a problem, loads a candidate solution, resolves  *)
(* the entry point, runs every test case under a SIGALRM watchdog, prints  *)
(* the report and exits.                                                   *)
(***************************************************************************)
EXTENDS Integers, Sequences, FiniteSets, TLC

\* Largest number of test cases of a problem definition.
MaxTests == 3

(***************************************************************************)
(* The dynamic value domain.  A value is a record [t, n, s]: t the runtime *)
(* type, n the number of a scalar, s the elements of a container.  A float *)
(* is held in units of 10^-7, one decimal more than round(value, 6) keeps. *)
(***************************************************************************)
VNull == [t |-> "null", n |-> 0, s |-> <<>>]

VInt(k) == [t |-> "int", n |-> k, s |-> <<>>]

VFloat(k) == [t |-> "float", n |-> k, s |-> <<>>]

\* float('nan'): a float that round(value, 6) returns as it is, in a new object,
\* and that == finds equal to nothing, itself included.
VNaN == [t |-> "nan", n |-> 0, s |-> <<>>]

\* True is 1 and False is 0.
VBool(b) == [t |-> "bool", n |-> IF b THEN 1 ELSE 0, s |-> <<>>]

\* A string, by its number; the empty string is number 0.
VStr(k) == [t |-> "str", n |-> k, s |-> <<>>]

VList(elems) == [t |-> "list", n |-> 0, s |-> elems]

VTuple(elems) == [t |-> "tuple", n |-> 0, s |-> elems]

\* A dict whose keys are tuples: a legal Python value that json.dumps refuses
\* (default=str is not applied to keys).
VTupleKeyDict == [t |-> "tuplekeydict", n |-> 0, s |-> <<>>]

\* A dict with string keys: its entries in insertion order, each the number of
\* its key and its value.
VEntry(key, value) == [t |-> "entry", n |-> key, s |-> <<value>>]

VDict(entries) == [t |-> "dict", n |-> 0, s |-> entries]

\* Units of a float per 1.0, and per 10^-6.
FloatUnit == 10000000

RoundStep == 10

\* round(value, 6): to the nearest multiple of 10^-6, ties to the even one.
Round6(k) ==
    LET lo == k - (k % RoundStep)
        r == k % RoundStep
    IN  IF r * 2 < RoundStep THEN lo
        ELSE IF r * 2 > RoundStep THEN lo + RoundStep
        ELSE IF (lo \div RoundStep) % 2 = 0 THEN lo ELSE lo + RoundStep

\* normalize_output, had it not gone into the values of a dict.
RECURSIVE normalize_outputNoDict(_)
normalize_outputNoDict(value) ==
    IF value.t \in {"list", "tuple"}
    THEN [t |-> "list", n |-> 0,
          s |-> [j \in 1..Len(value.s) |-> normalize_outputNoDict(value.s[j])]]
    ELSE IF value.t = "float" THEN [value EXCEPT !.n = Round6(value.n)]
    ELSE value

\* normalize_output, had a tuple stayed a tuple.
RECURSIVE normalize_outputTuplesKept(_)
normalize_outputTuplesKept(value) ==
    IF value.t \in {"list", "tuple"}
    THEN [value EXCEPT !.s = [j \in 1..Len(value.s) |->
                                 normalize_outputTuplesKept(value.s[j])]]
    ELSE IF value.t = "float" THEN [value EXCEPT !.n = Round6(value.n)]
    ELSE IF value.t = "dict"
    THEN [value EXCEPT !.s = [j \in 1..Len(value.s) |->
                                 VEntry(value.s[j].n,
                                        normalize_outputTuplesKept(value.s[j].s[1]))]]
    ELSE value

\* normalize_output, had the tuple branch returned list(output) without
\* normalizing the elements.
RECURSIVE normalize_outputTupleShallow(_)
normalize_outputTupleShallow(value) ==
    IF value.t = "tuple" THEN [t |-> "list", n |-> 0, s |-> value.s]
    ELSE IF value.t = "list"
    THEN [value EXCEPT !.s = [j \in 1..Len(value.s) |->
                                 normalize_outputTupleShallow(value.s[j])]]
    ELSE IF value.t = "float" THEN [value EXCEPT !.n = Round6(value.n)]
    ELSE IF value.t = "dict"
    THEN [value EXCEPT !.s = [j \in 1..Len(value.s) |->
                                 VEntry(value.s[j].n,
                                        normalize_outputTupleShallow(value.s[j].s[1]))]]
    ELSE value

RECURSIVE normalize_output(_)
normalize_output(value) ==
    IF value.t \in {"list", "tuple"}
    THEN [t |-> "list", n |-> 0,
          s |-> [j \in 1..Len(value.s) |-> normalize_output(value.s[j])]]
    ELSE IF value.t = "float" THEN [value EXCEPT !.n = Round6(value.n)]
    ELSE IF value.t = "dict"
    THEN [value EXCEPT !.s = [j \in 1..Len(value.s) |->
                                 VEntry(value.s[j].n, normalize_output(value.s[j].s[1]))]]
    ELSE value

\* The number a numeric value stands for, in float units (Python compares an
\* int and a float by value).
NumOf(v) == IF v.t \in {"int", "bool"} THEN v.n * FloatUnit ELSE v.n

\* Python's == on two values.
RECURSIVE PyEq(_, _)
PyEq(a, b) ==
    IF a.t = "nan" \/ b.t = "nan" THEN FALSE
    ELSE IF a.t \in {"int", "bool", "float"} /\ b.t \in {"int", "bool", "float"}
    THEN NumOf(a) = NumOf(b)
    ELSE IF a.t # b.t THEN FALSE
    ELSE IF a.t \in {"list", "tuple"}
    THEN /\ Len(a.s) = Len(b.s)
         /\ \A j \in 1..Len(a.s) : PyEq(a.s[j], b.s[j])
    ELSE IF a.t = "dict"
    THEN /\ {a.s[i].n : i \in 1..Len(a.s)} = {b.s[j].n : j \in 1..Len(b.s)}
         /\ \A i \in 1..Len(a.s) : \A j \in 1..Len(b.s) :
                a.s[i].n = b.s[j].n => PyEq(a.s[i].s[1], b.s[j].s[1])
    ELSE a.n = b.n

\* compare_outputs, had a null expected value been tested as "not expected"
\* against "not actual".
compare_outputsFalsy(actual, expected) ==
    LET a == normalize_output(actual)
        e == normalize_output(expected)
        falsy == \/ a.t = "null"
                 \/ a.t \in {"int", "bool", "float"} /\ a.n = 0
                 \/ a.t = "str" /\ a.n = 0
                 \/ a.t \in {"list", "dict"} /\ a.s = <<>>
    IN  IF e.t = "null" THEN falsy
        ELSE IF e.t = "list" /\ a.t = "list"
        THEN IF Len(e.s) # Len(a.s) THEN FALSE ELSE PyEq(a, e)
        ELSE PyEq(a, e)

compare_outputs(actual, expected) ==
    LET a == normalize_output(actual)
        e == normalize_output(expected)
    IN  IF e.t = "null" THEN a.t = "null"
        ELSE IF e.t = "list" /\ a.t = "list"
        THEN IF Len(e.s) # Len(a.s) THEN FALSE ELSE PyEq(a, e)
        ELSE PyEq(a, e)

\* json.dumps(value, default=str) succeeds.
Serializable(v) == v.t # "tuplekeydict"

(***************************************************************************)
(* Entry-point resolution.  A namespace is the sequence of its top-level   *)
(* names in dict iteration order, each with whether it is bound to a       *)
(* callable and whether the object bound is a built-in primitive; the hint *)
(* is the sequence of names of the "def " lines of the problem's starter   *)
(* code.                                                                   *)
(***************************************************************************)
common_names == <<"solve", "solution", "main", "find_asteroid_pair", "find_top_k_pairs">>

\* Names of the model's namespaces that start with an underscore.
UnderscoreNames == {"_private"}

\* Names of the model's namespaces that dir(__builtins__) lists.
BuiltinNames == {"print", "len"}

\* No function: detect_function_name raises ValueError.
NoFunction == ""

\* The names bound to a callable.
CallableNames(namespace) ==
    {namespace[j].name : j \in {i \in 1..Len(namespace) : namespace[i].callable}}

\* The first element of seq from the j-th on that is in ok, or NoFunction.
RECURSIVE FirstName(_, _, _)
FirstName(seq, ok, j) ==
    IF j > Len(seq) THEN NoFunction
    ELSE IF seq[j] \in ok THEN seq[j]
    ELSE FirstName(seq, ok, j + 1)

\* detect_function_name, had the common names been tried before the hint.
detect_function_nameCommonFirst(hint, namespace) ==
    LET callables == CallableNames(namespace)
        names == [j \in 1..Len(namespace) |-> namespace[j].name]
        byHint == FirstName(hint, callables, 1)
        byCommon == FirstName(common_names, callables, 1)
    IN  IF byCommon # NoFunction THEN byCommon
        ELSE IF byHint # NoFunction THEN byHint
        ELSE FirstName(names, (callables \ UnderscoreNames) \ BuiltinNames, 1)

detect_function_name(hint, namespace) ==
    LET callables == CallableNames(namespace)
        names == [j \in 1..Len(namespace) |-> namespace[j].name]
        byHint == FirstName(hint, callables, 1)
        byCommon == FirstName(common_names, callables, 1)
    IN  IF byHint # NoFunction THEN byHint
        ELSE IF byCommon # NoFunction THEN byCommon
        ELSE FirstName(names, (callables \ UnderscoreNames) \ BuiltinNames, 1)

(***************************************************************************)
(* The inputs of a run.                                                    *)
(***************************************************************************)
\* Expected values a test case declares.
ExpectedChoices == {VNull, VList(<<VInt(1), VInt(2)>>)}

\* Values a candidate call returns.
ReturnChoices == {VNull, VTuple(<<VInt(1), VInt(2)>>), VInt(3), VTupleKeyDict}

\* The input a test case declares, {nums: [2, 1]}, and its explanation.
DeclaredInput == VDict(<<VEntry(1, VList(<<VInt(2), VInt(1)>>))>>)

DeclaredExplanation == VStr(1)

\* The keys of a test case that run_single_test reads.
TestKeys == {"id", "input", "expected", "explanation"}

\* The id that stands for the string "unknown"; declared ids are 1, 2, ...
UnknownId == 0

\* test_case.get(key, default).
Get(test_case, key, default) ==
    IF key \in test_case.absent THEN default ELSE test_case[key]

\* A test case is a mapping, or some other YAML node (a scalar, null).
TestShapes ==
    {[mapping |-> TRUE, expected |-> e, input |-> DeclaredInput,
      explanation |-> DeclaredExplanation, absent |-> {}] : e \in ExpectedChoices}
        \cup {[mapping |-> FALSE, expected |-> VNull, input |-> DeclaredInput,
                explanation |-> DeclaredExplanation, absent |-> {}]}

\* The k-th test case of a list of shapes: its id is k.
Declared(shape, k) ==
    [id |-> k, mapping |-> shape.mapping, expected |-> shape.expected,
     input |-> shape.input, explanation |-> shape.explanation, absent |-> shape.absent]

\* The test_cases lists.
TestCaseSeqs ==
    UNION {{[k \in 1..n |-> Declared(c[k], k)] : c \in [1..n -> TestShapes]} :
              n \in 0..MaxTests}

\* problem.yaml: absent, not YAML, a document without a test_cases key, or a
\* document with one.
ProblemFiles == {"missing", "unparseable", "no_test_cases_key", "ok"}

NsEntry(name, callable, builtin) == [name |-> name, callable |-> callable, builtin |-> builtin]

NsNoEntry == <<NsEntry("_private", TRUE, FALSE), NsEntry("DATA", FALSE, FALSE)>>

NsAddSolve == <<NsEntry("add", TRUE, FALSE), NsEntry("solve", TRUE, FALSE)>>

\* What the top level of a candidate raises: a FileNotFoundError, a ValueError,
\* a SyntaxError (of eval, exec, compile or an import), any other Exception.
TopLevelFaults == {"raises_not_found", "raises_value", "raises_syntax", "raises"}

\* The candidate file: absent, unparseable, raising or exiting at top level,
\* or defining a namespace.
Candidates ==
    {[kind |-> k, code |-> 0, ns |-> <<>>] : k \in {"missing", "syntax"} \cup TopLevelFaults}
        \cup {[kind |-> "exits", code |-> c, ns |-> <<>>] : c \in {0, 1}}
        \cup {[kind |-> "ok", code |-> 0, ns |-> ns] : ns \in {NsNoEntry, NsAddSolve}}

\* What one call of the candidate's function does.  Before the deadline: return
\* a value, raise an Exception (a runtime fault, or the TypeError of
\* func(**test_input) with the wrong keys), or raise SystemExit(code).  Or it
\* is still running at the deadline: until interrupted, or for ever, catching
\* whatever is raised inside it.
CallChoices ==
    {[kind |-> "ret", value |-> v, code |-> 0] : v \in ReturnChoices}
        \cup {[kind |-> k, value |-> VNull, code |-> 0] : k \in {"exc", "hang", "catch"}}
        \cup {[kind |-> "exit", value |-> VNull, code |-> c] : c \in {0, 1}}

NoCall == [kind |-> "none", value |-> VNull, code |-> 0]

NoExc == [kind |-> "none", origin |-> "none", code |-> 0]

Raise(kind, origin) == [kind |-> kind, origin |-> origin, code |-> 0]

\* SystemExit derives from BaseException, not from Exception.
IsException(kind) == kind \notin {"none", "SystemExit"}

VARIABLES
    hasSigalrm,   \* hasattr(signal, 'SIGALRM'): the platform
    problemFile,  \* problem.yaml
    hint,         \* the "def " names of starter_code_python
    testCases,    \* problem["test_cases"]
    candidate,    \* solution.py
    pc,           \* where the process is
    report,       \* run_tests' results dict
    idx,          \* the test case the loop is at, from 1
    func,         \* the resolved entry point
    result,       \* run_single_test's result dict
    actual,       \* run_single_test's actual_output
    call,         \* what the call in flight does
    alarm,        \* the pending signal.alarm
    exc,          \* the exception being raised
    calls,        \* history: the calls made, in order
    printed,      \* reports written to stdout
    exitStatus,   \* the process's exit status, -1 while it runs
    execs,        \* history: how many times the candidate's top level was executed
    run,          \* which call of run_tests this is, when a caller makes two
    firstReport,  \* what the first call of run_tests returned
    behaviour,    \* what the candidate's function does, by test case id
    args,         \* the arguments of a function checked on its own
    out,          \* its result
    capacity,     \* self.capacity of a cache or of a buffer
    cache,        \* LRUCache.cache: the OrderedDict, first item first
    manual,       \* LRUCacheManual: its hashmap and its nodes
    buffer,       \* ReplayBuffer.buffer
    position,     \* ReplayBuffer.position
    history       \* history: the operations applied to a cache or a buffer

vars == <<hasSigalrm, problemFile, hint, testCases, candidate, pc, report, idx, func,
          result, actual, call, alarm, exc, calls, printed, exitStatus, execs, run,
          firstReport, behaviour, args, out, capacity, cache, manual, buffer, position,
          history>>

\* The files and the platform of a run.
runInputs == <<hasSigalrm, problemFile, hint, testCases, candidate>>

\* The caller of run_tests.
caller == <<run, firstReport, behaviour>>

\* A function checked on its own.
standalone == <<args, out>>

\* The data structures of the problems' reference solutions.
structures == <<capacity, cache, manual, buffer, position, history>>

\* What one run of main never writes.
inputs == <<runInputs, caller, standalone, structures>>

NoReport ==
    [success |-> TRUE, total |-> 0, passed |-> 0, failed |-> 0, results |-> <<>>,
     error |-> "null"]

NoResult ==
    [id |-> UnknownId, input |-> VDict(<<>>), expected |-> VNull, explanation |-> VStr(0),
     passed |-> FALSE, output |-> VNull, error |-> "null", execution_time_ms |-> "0"]

\* Nothing of a run has happened.
AtRest ==
    /\ report = NoReport
    /\ idx = 1
    /\ func = NoFunction
    /\ result = NoResult
    /\ actual = VNull
    /\ call = NoCall
    /\ alarm = "off"
    /\ exc = NoExc
    /\ calls = <<>>
    /\ printed = 0
    /\ exitStatus = -1
    /\ execs = 0

\* The process before main runs.
Start ==
    /\ pc = "load_problem"
    /\ AtRest

\* No problem is run: a function is checked on its own.
NoRun ==
    /\ hasSigalrm = FALSE
    /\ problemFile = "missing"
    /\ hint = <<>>
    /\ testCases = <<>>
    /\ candidate = [kind |-> "missing", code |-> 0, ns |-> <<>>]
    /\ AtRest

\* run_tests is called once, by main.
CalledOnce ==
    /\ run = 1
    /\ firstReport = NoReport
    /\ behaviour = <<>>

\* No function is checked on its own.
NoStandalone ==
    /\ args = <<>>
    /\ out = <<>>

\* No cache and no buffer is constructed.
NoStructures ==
    /\ capacity = 0
    /\ cache = <<>>
    /\ manual = <<>>
    /\ buffer = <<>>
    /\ position = 0
    /\ history = <<>>

Init ==
    /\ hasSigalrm \in BOOLEAN
    /\ problemFile \in ProblemFiles
    /\ hint \in {<<>>, <<"add">>}
    /\ testCases \in TestCaseSeqs
    /\ problemFile # "ok" => testCases = <<>> /\ hint = <<>>
    /\ candidate \in Candidates
    /\ Start
    /\ CalledOnce
    /\ NoStandalone
    /\ NoStructures

(***************************************************************************)
(* run_tests, up to the loop.                                              *)
(***************************************************************************)
\* load_problem and the test_cases check, had the check for an empty list not
\* been made.
LoadProblemUnchecked ==
    /\ pc = "load_problem"
    /\ IF problemFile = "missing"
       THEN /\ exc' = Raise("FileNotFoundError", "load_problem")
            /\ pc' = "rt_except"
            /\ UNCHANGED report
       ELSE IF problemFile = "unparseable"
       THEN /\ exc' = Raise("YAMLError", "load_problem")
            /\ pc' = "rt_except"
            /\ UNCHANGED report
       ELSE /\ report' = [report EXCEPT !.total = Len(testCases)]
            /\ pc' = "import_solution"
            /\ UNCHANGED exc
    /\ UNCHANGED <<inputs, execs, idx, func, result, actual, call, alarm, calls, printed, exitStatus>>

\* load_problem and the test_cases check.
LoadProblem ==
    /\ pc = "load_problem"
    /\ IF problemFile = "missing"
       THEN /\ exc' = Raise("FileNotFoundError", "load_problem")
            /\ pc' = "rt_except"
            /\ UNCHANGED report
       ELSE IF problemFile = "unparseable"
       THEN /\ exc' = Raise("YAMLError", "load_problem")
            /\ pc' = "rt_except"
            /\ UNCHANGED report
       ELSE IF testCases = <<>>
       THEN /\ report' = [report EXCEPT !.error = "no_test_cases", !.success = FALSE]
            /\ pc' = "main_print"
            /\ UNCHANGED exc
       ELSE /\ report' = [report EXCEPT !.total = Len(testCases)]
            /\ pc' = "import_solution"
            /\ UNCHANGED exc
    /\ UNCHANGED <<inputs, execs, idx, func, result, actual, call, alarm, calls, printed, exitStatus>>

\* import_user_solution, had a candidate that fails to load been passed on to
\* the resolution of the entry point.
ImportSolutionLenient ==
    /\ pc = "import_solution"
    /\ pc' = "detect"
    /\ execs' = IF candidate.kind \in {"missing", "syntax"} THEN execs ELSE execs + 1
    /\ UNCHANGED <<inputs, report, idx, func, result, actual, call, alarm, exc, calls, printed,
                   exitStatus>>

\* import_user_solution: exec of the candidate's top level.
ImportSolution ==
    /\ pc = "import_solution"
    /\ IF candidate.kind = "ok"
       THEN /\ pc' = "detect"
            /\ UNCHANGED exc
       ELSE /\ pc' = "rt_except"
            /\ exc' = CASE candidate.kind = "missing" -> Raise("FileNotFoundError", "import")
                        [] candidate.kind = "syntax" -> Raise("SyntaxError", "import")
                        [] candidate.kind = "raises_syntax" -> Raise("SyntaxError", "import")
                        [] candidate.kind \in TopLevelFaults -> Raise("RuntimeError", "import")
                        [] OTHER -> [kind |-> "SystemExit", origin |-> "import",
                                     code |-> candidate.code]
    /\ execs' = IF candidate.kind \in {"missing", "syntax"} THEN execs ELSE execs + 1
    /\ UNCHANGED <<inputs, report, idx, func, result, actual, call, alarm, calls, printed,
                   exitStatus>>

DetectFunction ==
    /\ pc = "detect"
    /\ LET name == detect_function_name(hint, candidate.ns)
       IN  IF name = NoFunction
           THEN /\ exc' = Raise("ValueError", "detect")
                /\ pc' = "rt_except"
                /\ UNCHANGED func
           ELSE /\ func' = name
                /\ pc' = "loop"
                /\ UNCHANGED exc
    /\ UNCHANGED <<inputs, execs, report, idx, result, actual, call, alarm, calls, printed, exitStatus>>

\* The for statement, had the candidate been loaded again for every test case.
NextTestReloading ==
    /\ pc = "loop"
    /\ IF idx > Len(testCases)
       THEN /\ pc' = "main_print"
            /\ UNCHANGED <<result, actual, exc, execs>>
       ELSE IF ~testCases[idx].mapping
       THEN /\ exc' = Raise("AttributeError", "test_case")
            /\ pc' = "rt_except"
            /\ UNCHANGED <<result, actual, execs>>
       ELSE /\ result' = [NoResult EXCEPT
                            !.id = Get(testCases[idx], "id", UnknownId),
                            !.input = Get(testCases[idx], "input", VDict(<<>>)),
                            !.expected = Get(testCases[idx], "expected", VNull),
                            !.explanation = Get(testCases[idx], "explanation", VStr(0))]
            /\ actual' = VNull
            /\ pc' = "arm"
            /\ execs' = execs + 1
            /\ UNCHANGED exc
    /\ UNCHANGED <<inputs, report, idx, func, call, alarm, calls, printed, exitStatus>>

\* The for statement: the next test case enters run_single_test, whose
\* test_case.get(...) lines need a mapping; after the last one run_tests returns.
NextTest ==
    /\ pc = "loop"
    /\ IF idx > Len(testCases)
       THEN /\ pc' = "main_print"
            /\ UNCHANGED <<result, actual, exc>>
       ELSE IF ~testCases[idx].mapping
       THEN /\ exc' = Raise("AttributeError", "test_case")
            /\ pc' = "rt_except"
            /\ UNCHANGED <<result, actual>>
       ELSE /\ result' = [NoResult EXCEPT
                            !.id = Get(testCases[idx], "id", UnknownId),
                            !.input = Get(testCases[idx], "input", VDict(<<>>)),
                            !.expected = Get(testCases[idx], "expected", VNull),
                            !.explanation = Get(testCases[idx], "explanation", VStr(0))]
            /\ actual' = VNull
            /\ pc' = "arm"
            /\ UNCHANGED exc
    /\ UNCHANGED <<inputs, execs, report, idx, func, call, alarm, calls, printed, exitStatus>>

(***************************************************************************)
(* run_single_test's try statement.                                        *)
(***************************************************************************)
\* signal.signal and signal.alarm(timeout_seconds), where there is SIGALRM.
Arm ==
    /\ pc = "arm"
    /\ alarm' = IF hasSigalrm THEN "armed" ELSE "off"
    /\ pc' = "start"
    /\ UNCHANGED <<inputs, execs, report, idx, func, result, actual, call, exc, calls, printed,
                   exitStatus>>

\* start_time, and func(**test_input) begins.
StartCall ==
    /\ pc = "start"
    /\ \E c \in CallChoices :
        /\ call' = c
        /\ calls' = Append(calls, [id |-> testCases[idx].id, kind |-> c.kind])
    /\ pc' = "in_call"
    /\ UNCHANGED <<inputs, execs, report, idx, func, result, actual, alarm, exc, printed, exitStatus>>

CallReturns ==
    /\ pc = "in_call"
    /\ call.kind = "ret"
    /\ actual' = call.value
    /\ pc' = "timing"
    /\ UNCHANGED <<inputs, execs, report, idx, func, result, call, alarm, exc, calls, printed,
                   exitStatus>>

\* The call raises: an Exception goes to the except Exception clause, SystemExit
\* to no clause, so to the finally clause.
CallRaises ==
    /\ pc = "in_call"
    /\ call.kind \in {"exc", "exit"}
    /\ IF call.kind = "exc"
       THEN /\ exc' = Raise("Fault", "call")
            /\ pc' = "except_exception"
       ELSE /\ exc' = [kind |-> "SystemExit", origin |-> "call", code |-> call.code]
            /\ pc' = "finally"
    /\ UNCHANGED <<inputs, execs, report, idx, func, result, actual, call, alarm, calls, printed,
                   exitStatus>>

\* end_time and result["execution_time_ms"].
RecordTime ==
    /\ pc = "timing"
    /\ result' = [result EXCEPT !.execution_time_ms = "measured"]
    /\ pc' = "disarm"
    /\ UNCHANGED <<inputs, execs, report, idx, func, actual, call, alarm, exc, calls, printed,
                   exitStatus>>

\* signal.alarm(0) of the try body.
Disarm ==
    /\ pc = "disarm"
    /\ alarm' = "off"
    /\ pc' = "record"
    /\ UNCHANGED <<inputs, execs, report, idx, func, result, actual, call, exc, calls, printed,
                   exitStatus>>

\* RecordOutput comparing the values as they are, without normalize_output.
RecordOutputUnnormalized ==
    /\ pc = "record"
    /\ result' = [result EXCEPT
                    !.output = actual,
                    !.passed = IF result.expected.t = "null" THEN actual.t = "null"
                               ELSE PyEq(actual, result.expected)]
    /\ pc' = "finally"
    /\ UNCHANGED <<inputs, execs, report, idx, func, actual, call, alarm, exc, calls, printed,
                   exitStatus>>

\* result["output"] and result["passed"].
RecordOutput ==
    /\ pc = "record"
    /\ result' = [result EXCEPT !.output = actual,
                                !.passed = compare_outputs(actual, result.expected)]
    /\ pc' = "finally"
    /\ UNCHANGED <<inputs, execs, report, idx, func, actual, call, alarm, exc, calls, printed,
                   exitStatus>>

\* except TimeoutError.
ExceptTimeout ==
    /\ pc = "except_timeout"
    /\ result' = [result EXCEPT !.error = "timeout"]
    /\ exc' = NoExc
    /\ pc' = "finally"
    /\ UNCHANGED <<inputs, execs, report, idx, func, actual, call, alarm, calls, printed, exitStatus>>

\* ExceptException swallowing the fault without recording it.
ExceptExceptionSilent ==
    /\ pc = "except_exception"
    /\ exc' = NoExc
    /\ pc' = "finally"
    /\ UNCHANGED <<inputs, execs, report, idx, func, result, actual, call, alarm, calls, printed,
                   exitStatus>>

\* except Exception.
ExceptException ==
    /\ pc = "except_exception"
    /\ result' = [result EXCEPT !.error = "fault"]
    /\ exc' = NoExc
    /\ pc' = "finally"
    /\ UNCHANGED <<inputs, execs, report, idx, func, actual, call, alarm, calls, printed, exitStatus>>

\* The finally clause, had it not cancelled the alarm.
FinallyStillArmed ==
    /\ pc = "finally"
    /\ pc' = IF exc.kind = "none" THEN "append" ELSE "rt_except"
    /\ UNCHANGED <<inputs, execs, report, idx, func, result, actual, call, alarm, exc, calls,
                   printed, exitStatus>>

\* finally: signal.alarm(0); then return result, or the exception goes on to
\* run_tests.
Finally ==
    /\ pc = "finally"
    /\ alarm' = "off"
    /\ pc' = IF exc.kind = "none" THEN "append" ELSE "rt_except"
    /\ UNCHANGED <<inputs, execs, report, idx, func, result, actual, call, exc, calls, printed,
                   exitStatus>>

\* The places of run_single_test where the alarm may be pending.
AlarmWindow == {"start", "in_call", "timing", "disarm", "except_exception", "finally"}

\* SIGALRM at the deadline: timeout_handler raises TimeoutError where the main
\* thread is.  In the try body it reaches except TimeoutError, unless the
\* candidate's code catches it; in an except clause or in the finally clause
\* nothing catches it.
Watchdog ==
    /\ alarm = "armed"
    /\ pc \in AlarmWindow
    /\ pc = "in_call" => call.kind \in {"hang", "catch"}
    /\ alarm' = "off"
    /\ IF pc = "in_call" /\ call.kind = "catch"
       THEN UNCHANGED <<pc, exc>>
       ELSE /\ exc' = Raise("TimeoutError", "watchdog")
            /\ pc' = CASE pc \in {"start", "in_call", "timing", "disarm"} -> "except_timeout"
                       [] pc = "except_exception" -> "finally"
                       [] OTHER -> "rt_except"
    /\ UNCHANGED <<inputs, execs, report, idx, func, result, actual, call, calls, printed,
                   exitStatus>>

(***************************************************************************)
(* run_tests from the loop's body on, and main.                            *)
(***************************************************************************)
\* AppendResult counting as failed only the results without an error.
AppendResultErrorsUncounted ==
    /\ pc = "append"
    /\ report' = [report EXCEPT
                    !.results = Append(@, result),
                    !.passed = IF result.passed THEN @ + 1 ELSE @,
                    !.failed = IF result.passed \/ result.error # "null" THEN @ ELSE @ + 1]
    /\ idx' = idx + 1
    /\ call' = NoCall
    /\ pc' = "loop"
    /\ UNCHANGED <<inputs, execs, func, result, actual, alarm, exc, calls, printed, exitStatus>>

\* AppendResult putting the failed results first.
AppendResultFailedFirst ==
    /\ pc = "append"
    /\ report' = [report EXCEPT
                    !.results = IF result.passed THEN Append(@, result) ELSE <<result>> \o @,
                    !.passed = IF result.passed THEN @ + 1 ELSE @,
                    !.failed = IF result.passed THEN @ ELSE @ + 1]
    /\ idx' = idx + 1
    /\ call' = NoCall
    /\ pc' = "loop"
    /\ UNCHANGED <<inputs, execs, func, result, actual, alarm, exc, calls, printed, exitStatus>>

\* results["results"].append(test_result) and the counters.
AppendResult ==
    /\ pc = "append"
    /\ report' = [report EXCEPT
                    !.results = Append(@, result),
                    !.passed = IF result.passed THEN @ + 1 ELSE @,
                    !.failed = IF result.passed THEN @ ELSE @ + 1]
    /\ idx' = idx + 1
    /\ call' = NoCall
    /\ pc' = "loop"
    /\ UNCHANGED <<inputs, execs, func, result, actual, alarm, exc, calls, printed, exitStatus>>

\* The error text of each except clause of run_tests.
FailureText(kind) ==
    CASE kind = "FileNotFoundError" -> "not_found"
      [] kind = "SyntaxError" -> "syntax_error"
      [] kind = "ValueError" -> "value_error"
      [] OTHER -> "unexpected_error"

\* The except clauses of run_tests, and return results.
HandleFailure ==
    /\ pc = "rt_except"
    /\ IsException(exc.kind)
    /\ report' = [report EXCEPT !.success = FALSE, !.error = FailureText(exc.kind)]
    /\ exc' = NoExc
    /\ pc' = "main_print"
    /\ UNCHANGED <<inputs, execs, idx, func, result, actual, call, alarm, calls, printed, exitStatus>>

\* SystemExit passes every except Exception clause, run_tests and main: the
\* interpreter exits with its code.
Uncaught ==
    /\ pc = "rt_except"
    /\ ~IsException(exc.kind)
    /\ exitStatus' = exc.code
    /\ pc' = "exited"
    /\ UNCHANGED <<inputs, execs, report, idx, func, result, actual, call, alarm, exc, calls, printed>>

ReportSerializable == \A k \in 1..Len(report.results) : Serializable(report.results[k].output)

\* print(json.dumps(results, indent=2, default=str)): a TypeError of json.dumps
\* is caught nowhere and ends the process with status 1.
PrintReport ==
    /\ pc = "main_print"
    /\ IF ReportSerializable
       THEN /\ printed' = printed + 1
            /\ pc' = "main_exit"
            /\ UNCHANGED exitStatus
       ELSE /\ exitStatus' = 1
            /\ pc' = "exited"
            /\ UNCHANGED printed
    /\ UNCHANGED <<inputs, execs, report, idx, func, result, actual, call, alarm, exc, calls>>

\* sys.exit(0 if results["success"] and results["failed"] == 0 else 1).
Exit ==
    /\ pc = "main_exit"
    /\ exitStatus' = IF report.success /\ report.failed = 0 THEN 0 ELSE 1
    /\ pc' = "exited"
    /\ UNCHANGED <<inputs, execs, report, idx, func, result, actual, call, alarm, exc, calls, printed>>

Next ==
    \/ LoadProblem
    \/ ImportSolution
    \/ DetectFunction
    \/ NextTest
    \/ Arm
    \/ StartCall
    \/ CallReturns
    \/ CallRaises
    \/ RecordTime
    \/ Disarm
    \/ RecordOutput
    \/ ExceptTimeout
    \/ ExceptException
    \/ Finally
    \/ Watchdog
    \/ AppendResult
    \/ HandleFailure
    \/ Uncaught
    \/ PrintReport
    \/ Exit

Spec == Init /\ [][Next]_vars

(***************************************************************************)
(* What the claims speak of.                                               *)
(***************************************************************************)
\* run_tests has returned its report to main.
Returned == pc \in {"main_print", "main_exit", "exited"} /\ exc.kind = "none"

Results == report.results

\* The call made for the test case with this id did this.
Called(id, kinds) == \E k \in 1..Len(calls) : calls[k].id = id /\ calls[k].kind \in kinds

\* The results run_single_test has returned so far.
ReturnedResults ==
    {Results[k] : k \in 1..Len(Results)} \cup (IF pc = "append" THEN {result} ELSE {})

\* C4: in every report that run_tests returns with success == true,
\* total == len(results) and passed + failed == total.
C4_CountConsistency ==
    Returned /\ report.success =>
        /\ report.total = Len(Results)
        /\ report.passed + report.failed = report.total

\* A successful report of three results: one passed, one faulted, one timed out.
C4_Witness ==
    /\ Returned
    /\ report.success
    /\ Len(Results) = 3
    /\ \E k \in 1..3 : Results[k].passed
    /\ \E k \in 1..3 : Results[k].error = "fault"
    /\ \E k \in 1..3 : Results[k].error = "timeout"

\* C6: the calls are made in the order of the declared test cases, at most one
\* per test case; the k-th result is always the k-th test case's, and a
\* successful run has exactly one result per test case.
C6_ResultOrdering ==
    /\ \A k \in 1..Len(Results) :
         /\ Results[k].id = testCases[k].id
         /\ Results[k].expected = testCases[k].expected
    /\ \A j, k \in 1..Len(calls) : j < k => calls[j].id < calls[k].id
    /\ Returned /\ report.success => Len(Results) = Len(testCases)

\* A successful run of three test cases whose first failed and whose last passed.
C6_Witness ==
    /\ Returned
    /\ report.success
    /\ Len(Results) = 3
    /\ Results[1].error # "null"
    /\ ~Results[2].passed
    /\ Results[3].passed

\* C1: in a run whose every test case is a mapping and whose every call
\* returns a printable value or raises an Exception, each call that raises
\* leaves a result with passed == false and an error, counted once in failed;
\* every test case gets its result and the run reports success == true.
C1_FaultIsolation ==
    /\ pc = "exited"
    /\ \A k \in 1..Len(testCases) : testCases[k].mapping
    /\ \A k \in 1..Len(calls) : calls[k].kind \in {"ret", "exc"}
    /\ \E k \in 1..Len(calls) : calls[k].kind = "exc"
    /\ ReportSerializable
    => /\ printed = 1
       /\ report.success
       /\ Len(Results) = Len(testCases)
       /\ \A k \in 1..Len(Results) :
            Called(Results[k].id, {"exc"}) =>
                ~Results[k].passed /\ Results[k].error # "null"
       /\ report.failed = Cardinality({k \in 1..Len(Results) : ~Results[k].passed})

\* C2: whatever a call does (return, raise an Exception, run until the watchdog
\* interrupts it), no exception of the call or of the watchdog reaches the
\* except clauses of run_tests.
C2_NoPerTestFaultEscapes ==
    /\ pc = "rt_except"
    /\ \A k \in 1..Len(calls) : calls[k].kind \in {"ret", "exc", "hang"}
    => exc.origin \notin {"call", "watchdog"}

\* The call in flight never returns and nothing is left to interrupt it.
Blocked == pc = "in_call" /\ call.kind \in {"hang", "catch"} /\ alarm = "off"

\* C3: a call that never returns leaves a result with passed == false, output
\* null and the timeout error, and the run never stops before the process exits.
C3_TimeoutDoesNotBlock ==
    /\ \A r \in ReturnedResults :
         Called(r.id, {"hang", "catch"}) =>
             ~r.passed /\ r.output = VNull /\ r.error = "timeout"
    /\ pc # "exited" => ENABLED Next

\* C5: a report with an error, or without success, has no results.
C5_ErrorExcludesResults ==
    Returned =>
        /\ report.error # "null" => Results = <<>>
        /\ ~report.success => Results = <<>> /\ report.error # "null"

\* C7: the exit status is 0 exactly when the run's report was made with
\* success == true and failed == 0.
C7_ExitStatus ==
    pc = "exited" =>
        (exitStatus = 0 <=> Returned /\ report.success /\ report.failed = 0)

\* C8: the process exits only after printing exactly one report.
C8_AlwaysReports == pc = "exited" => printed = 1

\* C9 as amended: every result run_single_test returns is passed without an
\* error, or not passed with an error, or not passed without an error after a
\* call that returned a value the comparison rejects (its output: any returned
\* value, null too).
C9_ResultShapes ==
    \A r \in ReturnedResults :
        \/ r.passed /\ r.error = "null"
        \/ ~r.passed /\ r.error # "null"
        \/ /\ ~r.passed
           /\ r.error = "null"
           /\ Called(r.id, {"ret"})
           /\ r.execution_time_ms = "measured"
           /\ ~compare_outputs(r.output, r.expected)

\* C9 as claimed: the third shape has a non-null output.
C9_ResultShapesOutputPresent ==
    \A r \in ReturnedResults :
        \/ r.passed /\ r.error = "null"
        \/ ~r.passed /\ r.error # "null"
        \/ ~r.passed /\ r.error = "null" /\ r.output # VNull

\* A call returned null where a value was expected.
C9_Witness ==
    \E k \in 1..Len(Results) :
        /\ ~Results[k].passed
        /\ Results[k].error = "null"
        /\ Results[k].output = VNull
        /\ Results[k].expected # VNull

\* C10 as amended: a result is passed exactly when it has no error and
\* compare_outputs holds of its output and its expected value; a result without
\* error carries the value its call returned and the comparator's verdict on it.
C10_PassedIffComparatorHolds ==
    /\ \A r \in ReturnedResults :
         r.passed <=> (r.error = "null" /\ compare_outputs(r.output, r.expected))
    /\ pc = "append" /\ result.error = "null" =>
         /\ call.kind = "ret"
         /\ result.output = call.value
         /\ result.passed <=> compare_outputs(call.value, result.expected)

\* C10 as claimed: a result is passed exactly when the comparator holds of its
\* normalized output and its normalized expected value, or both are null.
C10_PassedIffComparatorOnOutput ==
    \A r \in ReturnedResults :
        r.passed <=>
            \/ compare_outputs(normalize_output(r.output), normalize_output(r.expected))
            \/ r.output = VNull /\ r.expected = VNull

\* A returned tuple passed against the expected list, a wrong value was
\* rejected without error, and a call faulted where null was expected.
C10_Witness ==
    /\ \E k \in 1..Len(Results) :
         Results[k].passed /\ Results[k].output.t = "tuple" /\ Results[k].expected.t = "list"
    /\ \E k \in 1..Len(Results) :
         ~Results[k].passed /\ Results[k].error = "null" /\ Results[k].output = VInt(3)
    /\ \E k \in 1..Len(Results) :
         Results[k].error = "fault" /\ Results[k].expected = VNull

(***************************************************************************)
(* C11.  A problem definition with no test cases, the test_cases key       *)
(* absent or its list empty, is a hard failure: run_tests returns          *)
(* success false, the error "No test cases found in problem definition",   *)
(* no results and total, passed and failed all 0.  No report that          *)
(* run_tests returns has success true and total 0.                         *)
(***************************************************************************)
NoTestCases == problemFile \in {"no_test_cases_key", "ok"} /\ testCases = <<>>

C11_NoTestCasesIsFailure ==
    Returned =>
        /\ NoTestCases =>
              report = [NoReport EXCEPT !.success = FALSE, !.error = "no_test_cases"]
        /\ report.success => report.total # 0

C11_Witness == Returned /\ NoTestCases /\ printed = 1

(***************************************************************************)
(* Runs of a well-formed problem against a candidate that exposes a        *)
(* correct reference implementation: every test case is a mapping, the     *)
(* candidate loads, and its top-level callable ReferenceName returns, for  *)
(* every test case and before the deadline, a value that compares equal to *)
(* the expected one.  What the namespace's other callables do is free.     *)
(***************************************************************************)
ReferenceName == "add"

\* from collections import Counter, then def add.
NsImportAdd == <<NsEntry("Counter", TRUE, FALSE), NsEntry("add", TRUE, FALSE)>>

RefNamespaces == {NsAddSolve, NsImportAdd}

CorrectCalls(expected) ==
    {c \in CallChoices : c.kind = "ret" /\ compare_outputs(c.value, expected)}

InitRef ==
    /\ hasSigalrm \in BOOLEAN
    /\ problemFile = "ok"
    /\ hint \in {<<>>, <<ReferenceName>>}
    /\ testCases \in {tc \in TestCaseSeqs : tc # <<>> /\ \A k \in 1..Len(tc) : tc[k].mapping}
    /\ candidate \in {[kind |-> "ok", code |-> 0, ns |-> ns] : ns \in RefNamespaces}
    /\ Start
    /\ CalledOnce
    /\ NoStandalone
    /\ NoStructures

\* start_time, and func(**test_input) begins: the reference implementation, or
\* whatever else was resolved.
StartCallRef ==
    /\ pc = "start"
    /\ \E c \in IF func = ReferenceName THEN CorrectCalls(testCases[idx].expected)
                ELSE CallChoices :
        /\ call' = c
        /\ calls' = Append(calls, [id |-> testCases[idx].id, kind |-> c.kind])
    /\ pc' = "in_call"
    /\ UNCHANGED <<inputs, execs, report, idx, func, result, actual, alarm, exc, printed, exitStatus>>

RefNext ==
    \/ LoadProblem
    \/ ImportSolution
    \/ DetectFunction
    \/ NextTest
    \/ Arm
    \/ StartCallRef
    \/ CallReturns
    \/ CallRaises
    \/ RecordTime
    \/ Disarm
    \/ RecordOutput
    \/ ExceptTimeout
    \/ ExceptException
    \/ Finally
    \/ Watchdog
    \/ AppendResult
    \/ HandleFailure
    \/ Uncaught
    \/ PrintReport
    \/ Exit

RefSpec == InitRef /\ [][RefNext]_vars

(***************************************************************************)
(* C12.  For a well-formed problem with at least one test case and a       *)
(* candidate exposing a correct reference implementation, run_tests        *)
(* returns success true and failed 0, whatever other top-level names the   *)
(* candidate's namespace holds.  Stated where no watchdog exists, so that   *)
(* only the resolution of the entry point is in play.                      *)
(***************************************************************************)
C12_ReferencePasses ==
    pc = "exited" /\ ~hasSigalrm => Returned /\ report.success /\ report.failed = 0

(***************************************************************************)
(* C13.  Load faults are classified: a missing problem or candidate file   *)
(* gives success false with a not-found error; a candidate whose text does *)
(* not parse gives a "Syntax Error: " error; a candidate whose top level   *)
(* raises an Exception, whatever its kind, gives the load error wrapping   *)
(* the fault and none of the other kinds.  The results are empty in all    *)
(* these cases.                                                            *)
(***************************************************************************)
LoadFaultReport(text) == [NoReport EXCEPT !.success = FALSE, !.error = text,
                                          !.total = Len(testCases)]

C13_LoadFaultClassification ==
    pc = "exited" =>
        /\ problemFile = "missing" =>
              report = [NoReport EXCEPT !.success = FALSE, !.error = "not_found"]
        /\ problemFile = "ok" /\ testCases # <<>> =>
              /\ candidate.kind = "missing" => report = LoadFaultReport("not_found")
              /\ candidate.kind = "syntax" => report = LoadFaultReport("syntax_error")
              /\ candidate.kind \in TopLevelFaults =>
                    report = LoadFaultReport("unexpected_error")

(***************************************************************************)
(* A caller that calls run_tests twice in one process, on the same problem *)
(* and the same candidate.  The candidate is deterministic: what its       *)
(* function does for a test case (the value, the fault, whether it is      *)
(* still running at the deadline) is drawn at the first call for that test *)
(* case and replayed at every later one.  Nothing of the process is reset  *)
(* between the two calls but what run_tests itself initialises.            *)
(***************************************************************************)
\* Largest number of test cases of a problem run twice.
MaxRepeatTests == 2

InitTwice ==
    /\ hasSigalrm \in BOOLEAN
    /\ problemFile = "ok"
    /\ hint = <<>>
    /\ testCases \in {tc \in TestCaseSeqs : Len(tc) <= MaxRepeatTests}
    /\ candidate \in Candidates
    /\ Start
    /\ CalledOnce
    /\ NoStandalone
    /\ NoStructures

\* start_time, and func(**test_input) begins, of a deterministic candidate.
StartCallReplay ==
    /\ pc = "start"
    /\ LET id == testCases[idx].id
       IN  \E c \in IF id \in DOMAIN behaviour THEN {behaviour[id]} ELSE CallChoices :
            /\ call' = c
            /\ calls' = Append(calls, [id |-> id, kind |-> c.kind])
            /\ behaviour' = IF id \in DOMAIN behaviour THEN behaviour
                            ELSE behaviour @@ (id :> c)
    /\ pc' = "in_call"
    /\ UNCHANGED <<structures, runInputs, run, firstReport, standalone, execs, report, idx, func, result,
                   actual, alarm, exc, printed, exitStatus>>

\* The first call has returned its report; the caller calls run_tests again.
RunAgain ==
    /\ pc = "main_print"
    /\ run = 1
    /\ run' = 2
    /\ firstReport' = report
    /\ report' = NoReport
    /\ idx' = 1
    /\ func' = NoFunction
    /\ result' = NoResult
    /\ actual' = VNull
    /\ call' = NoCall
    /\ pc' = "load_problem"
    /\ UNCHANGED <<structures, runInputs, behaviour, standalone, execs, alarm, exc, calls, printed,
                   exitStatus>>

TwiceNext ==
    \/ LoadProblem
    \/ ImportSolution
    \/ DetectFunction
    \/ NextTest
    \/ Arm
    \/ StartCallReplay
    \/ CallReturns
    \/ CallRaises
    \/ RecordTime
    \/ Disarm
    \/ RecordOutput
    \/ ExceptTimeout
    \/ ExceptException
    \/ Finally
    \/ Watchdog
    \/ AppendResult
    \/ HandleFailure
    \/ RunAgain

TwiceSpec == InitTwice /\ [][TwiceNext]_vars

\* What the claim compares of a report: each result's id, passed and output.
Verdicts(rep) ==
    [k \in 1..Len(rep.results) |->
        [id |-> rep.results[k].id, passed |-> rep.results[k].passed,
         output |-> rep.results[k].output]]

(***************************************************************************)
(* C14.  Idempotence: two calls of run_tests on the same problem and the   *)
(* same deterministic candidate return reports with the same passed flag   *)
(* and the same output for every test case.                                *)
(***************************************************************************)
C14_Idempotence ==
    run = 2 /\ pc = "main_print" => Verdicts(report) = Verdicts(firstReport)

(***************************************************************************)
(* compare_outputs on its own: two numbers, each put at the same place of  *)
(* a nest of sequences and mappings.  The actual value may hold tuples     *)
(* where the expected one, read from YAML, holds lists.                    *)
(***************************************************************************)
\* Deepest nest of containers around the numbers compared.
MaxDepth == 2

\* Floats around 0.3 and 1.0, in units of 10^-7, and ints.  0.3 + 10^-7 stands
\* for a sum such as 0.1 + 0.2, above 0.3 by less than half of 10^-6.
NumberChoices ==
    {VFloat(k) : k \in {2999995, 3000000, 3000001, 3000005, 3000006, 3000015,
                        10000000, 10000004}}
        \cup {VInt(0), VInt(1)}

Containers == {"list", "tuple", "dict"}

Nests == UNION {[1..d -> Containers] : d \in 0..MaxDepth}

\* value inside the containers of nest, outermost first.
RECURSIVE Nested(_, _, _)
Nested(nest, value, fromYaml) ==
    IF nest = <<>> THEN value
    ELSE LET inner == Nested(Tail(nest), value, fromYaml)
         IN  CASE Head(nest) = "dict" -> VDict(<<VEntry(1, VInt(7)), VEntry(2, inner)>>)
               [] Head(nest) = "tuple" /\ ~fromYaml -> VTuple(<<VInt(7), inner>>)
               [] OTHER -> VList(<<VInt(7), inner>>)

InitCompare ==
    /\ NoRun
    /\ CalledOnce
    /\ pc = "compare"
    /\ args \in {[nest |-> n, actual |-> a, expected |-> e] :
                    n \in Nests, a \in NumberChoices, e \in NumberChoices}
    /\ out = <<>>
    /\ NoStructures

Compare ==
    /\ pc = "compare"
    /\ out' = <<compare_outputs(Nested(args.nest, args.actual, FALSE),
                                Nested(args.nest, args.expected, TRUE))>>
    /\ pc' = "compared"
    /\ UNCHANGED <<structures, runInputs, caller, args, execs, report, idx, func, result, actual, call,
                   alarm, exc, calls, printed, exitStatus>>

CompareNext ==
    \/ Compare

CompareSpec == InitCompare /\ [][CompareNext]_vars

\* The number a value stands for once a float is rounded to 6 decimals.
Rounded(v) == IF v.t = "float" THEN Round6(v.n) ELSE v.n * FloatUnit

(***************************************************************************)
(* C15.  Float tolerance: floats are rounded to 6 decimal places before    *)
(* the comparison, at every nesting depth of sequences and mappings: two   *)
(* numbers at the same place compare equal exactly when their 6-decimal    *)
(* roundings are equal, so a sum like 0.1 + 0.2 equals 0.3 and values      *)
(* whose roundings differ compare unequal.                                 *)
(***************************************************************************)
C15_FloatTolerance ==
    pc = "compared" => out[1] = (Rounded(args.actual) = Rounded(args.expected))

\* A float above 0.3 by 10^-7, two containers deep inside a mapping, compares
\* equal to 0.3.
C15_Witness ==
    /\ pc = "compared"
    /\ Len(args.nest) = MaxDepth
    /\ args.nest[MaxDepth] = "dict"
    /\ args.actual = VFloat(3000001)
    /\ args.expected = VFloat(3000000)
    /\ out[1]

C17_ReturnedCallIsNoTimeout ==
    pc = "append" /\ call.kind = "ret" =>
        /\ result.error # "timeout"
        /\ result.output = call.value
        /\ result.passed = compare_outputs(call.value, result.expected)

(***************************************************************************)
(* The stages of a run, by where the process is: Init, ProblemLoaded,      *)
(* CandidateLoaded, EntryResolved and Running(i), then Failed or Done and  *)
(* what main does with the report.                                         *)
(***************************************************************************)
Stage(at) ==
    CASE at = "load_problem" -> 0
      [] at = "import_solution" -> 1
      [] at = "detect" -> 2
      [] at = "rt_except" -> 4
      [] at = "main_print" -> 5
      [] at = "main_exit" -> 6
      [] at = "exited" -> 7
      [] OTHER -> 3

ProblemLoaded == problemFile = "ok" /\ testCases # <<>>

(***************************************************************************)
(* C18.  A run goes Init, ProblemLoaded, CandidateLoaded, EntryResolved,   *)
(* Running(i), Done, never backwards, and a fault at a stage goes straight *)
(* to Failed and skips the stages left: the candidate's source is never    *)
(* executed when the problem file is missing, unparseable or without test  *)
(* cases; the entry point is never resolved when the candidate fails to    *)
(* load; no callable of the candidate is called when resolution fails.     *)
(***************************************************************************)
C18_StagesShortCircuit ==
    /\ [](/\ ~ProblemLoaded => Stage(pc) \notin 1..3 /\ execs = 0
          /\ candidate.kind # "ok" => Stage(pc) \notin 2..3 /\ func = NoFunction
          /\ func = NoFunction => pc \in {"load_problem", "import_solution", "detect",
                                          "rt_except", "main_print", "main_exit", "exited"}
                                  /\ calls = <<>>)
    /\ [][/\ Stage(pc') >= Stage(pc)
          /\ idx' >= idx
          /\ Stage(pc) <= 2 /\ exc'.kind # "none" => pc' = "rt_except"]_vars

\* The candidate's top level raised: the run failed and was reported without
\* an entry point having been resolved.
C18_Witness ==
    /\ pc = "exited"
    /\ candidate.kind = "raises"
    /\ execs = 1
    /\ printed = 1
    /\ ~report.success

(***************************************************************************)
(* detect_function_name on its own: a hint and a namespace drawn from a    *)
(* few names, among them common names, names with an underscore and names  *)
(* that builtins bear.                                                     *)
(***************************************************************************)
\* Most names in a namespace, and most "def " lines in a starter code.
MaxNames == 2

ResolveNames == {"add", "helper", "solve", "main", "_private", "print"}

\* Namespaces: distinct names, each bound to a callable or to data, the object
\* a candidate-defined one or a built-in primitive (a builtin function is
\* callable).
ResolveNamespaces ==
    UNION {{ns \in [1..n -> {NsEntry(name, c, b) : name \in ResolveNames, c \in BOOLEAN,
                                                    b \in BOOLEAN}] :
               /\ \A i \in 1..n : \A j \in 1..n : i # j => ns[i].name # ns[j].name
               /\ \A i \in 1..n : ns[i].builtin => ns[i].callable} : n \in 0..MaxNames}

ResolveHints == UNION {[1..n -> {"add", "helper"}] : n \in 0..MaxNames}

InitResolve ==
    /\ NoRun
    /\ CalledOnce
    /\ pc = "resolve"
    /\ args \in {[hint |-> h, namespace |-> ns] : h \in ResolveHints, ns \in ResolveNamespaces}
    /\ out = <<>>
    /\ NoStructures

Resolve ==
    /\ pc = "resolve"
    /\ out' = <<detect_function_name(args.hint, args.namespace)>>
    /\ pc' = "resolved"
    /\ UNCHANGED <<structures, runInputs, caller, args, execs, report, idx, func, result, actual, call,
                   alarm, exc, calls, printed, exitStatus>>

ResolveNext ==
    \/ Resolve

ResolveSpec == InitResolve /\ [][ResolveNext]_vars

\* The places of a sequence of names whose name is bound to a callable.
CallablePlaces(names, namespace) ==
    {j \in 1..Len(names) :
        \E i \in 1..Len(namespace) : namespace[i].name = names[j] /\ namespace[i].callable}

\* The name at the least place of a non-empty set of places.
AtLeast(names, places) == names[CHOOSE j \in places : \A k \in places : j <= k]

(***************************************************************************)
(* C19.  Resolution is a function of the hint and the namespace, by steps  *)
(* in this order: (1) the first hinted name that is a callable of the      *)
(* namespace, even when solve or another fallback name is there too; (2)   *)
(* else the first of solve, solution, main, find_asteroid_pair,            *)
(* find_top_k_pairs that is a callable of the namespace; (3) else the      *)
(* first callable in namespace order that qualifies for the last resort;   *)
(* (4) else failure.  A hinted name absent or not callable falls through   *)
(* to step 2, and every name selected is a key of the namespace bound to a *)
(* callable.                                                               *)
(***************************************************************************)
C19_ResolutionOrder ==
    pc = "resolved" =>
        LET hinted == CallablePlaces(args.hint, args.namespace)
            common == CallablePlaces(common_names, args.namespace)
            names == [j \in 1..Len(args.namespace) |-> args.namespace[j].name]
            last == {j \in CallablePlaces(names, args.namespace) :
                        names[j] \notin UnderscoreNames \cup BuiltinNames}
        IN  /\ hinted # {} => out[1] = AtLeast(args.hint, hinted)
            /\ hinted = {} /\ common # {} => out[1] = AtLeast(common_names, common)
            /\ hinted = {} /\ common = {} /\ last # {} => out[1] = AtLeast(names, last)
            /\ hinted = {} /\ common = {} /\ last = {} => out[1] = NoFunction
            /\ out[1] # NoFunction => out[1] \in CallableNames(args.namespace)

\* The hinted name is selected although solve comes first in the namespace.
C19_Witness ==
    /\ pc = "resolved"
    /\ args.hint = <<"helper", "add">>
    /\ args.namespace = <<NsEntry("solve", TRUE, FALSE), NsEntry("add", TRUE, FALSE)>>
    /\ out[1] = "add"

(***************************************************************************)
(* C20.  The last resort selects the first callable in namespace order     *)
(* whose name does not start with an underscore and whose object is not a  *)
(* built-in primitive: a callable the candidate defined is selected        *)
(* whatever its name without underscore is, and a built-in primitive bound *)
(* under another name is never selected.                                   *)
(***************************************************************************)
C20_LastResortByObject ==
    pc = "resolved"
        /\ CallablePlaces(args.hint, args.namespace) = {}
        /\ CallablePlaces(common_names, args.namespace) = {} =>
        LET names == [j \in 1..Len(args.namespace) |-> args.namespace[j].name]
            qualifying == {j \in 1..Len(args.namespace) :
                              /\ args.namespace[j].callable
                              /\ names[j] \notin UnderscoreNames
                              /\ ~args.namespace[j].builtin}
        IN  out[1] = IF qualifying = {} THEN NoFunction ELSE AtLeast(names, qualifying)

(***************************************************************************)
(* C21.  The candidate's top-level statements are executed exactly once    *)
(* per run, before the entry point is resolved and before any test case is *)
(* run, and never again between test cases; every test case is called on   *)
(* the one callable resolved from the namespace at the start.              *)
(***************************************************************************)
C21_TopLevelOnce ==
    /\ execs <= 1
    /\ ProblemLoaded /\ candidate.kind \notin {"missing", "syntax"}
          /\ Stage(pc) >= 2 => execs = 1
    /\ pc = "detect" \/ func # NoFunction \/ calls # <<>> => execs = 1
    /\ func # NoFunction => func = detect_function_name(hint, candidate.ns)
    /\ calls # <<>> => func # NoFunction

\* Two test cases were called, after one execution of the top level.
C21_Witness ==
    /\ pc = "exited"
    /\ Len(calls) >= 2
    /\ execs = 1

(***************************************************************************)
(* C22.  Elapsed time is recorded whatever the outcome: the result of a    *)
(* test case whose call was made, whether the call returned, raised a      *)
(* fault or timed out, carries the time measured between the start and the *)
(* end of the call.                                                        *)
(***************************************************************************)
C22_ElapsedTimeAlways ==
    \A r \in ReturnedResults :
        Called(r.id, {"ret", "exc", "hang", "catch"}) => r.execution_time_ms = "measured"

(***************************************************************************)
(* compare_outputs on two sequences, each put at the same place of a nest  *)
(* of containers: the actual one a list or a tuple, the expected one a     *)
(* list.                                                                   *)
(***************************************************************************)
\* Longest sequence compared.
MaxSeqLen == 2

\* 1, 2 and a float that rounds to 1.0.
ElementChoices == {VInt(1), VInt(2), VFloat(10000004)}

FlatSeqs == UNION {[1..n -> ElementChoices] : n \in 0..MaxSeqLen}

InitSequences ==
    /\ NoRun
    /\ CalledOnce
    /\ pc = "compare"
    /\ args \in {[nest |-> n, actual |-> a, expected |-> VList(e)] :
                    n \in Nests, e \in FlatSeqs,
                    a \in {VList(x) : x \in FlatSeqs} \cup {VTuple(x) : x \in FlatSeqs}}
    /\ out = <<>>
    /\ NoStructures

SequenceSpec == InitSequences /\ [][CompareNext]_vars

(***************************************************************************)
(* C23.  Sequence comparison: a tuple and a list normalize to the same     *)
(* ordered sequence at every nesting depth, so an actual tuple equals an   *)
(* expected list with the same elements; sequences of different lengths    *)
(* never compare equal; sequences of equal length compare equal exactly    *)
(* when they are equal element by element, in order, after normalization.  *)
(***************************************************************************)
C23_SequenceComparison ==
    pc = "compared" =>
        out[1] = (/\ Len(args.actual.s) = Len(args.expected.s)
                  /\ \A j \in 1..Len(args.actual.s) :
                        j <= Len(args.expected.s) =>
                            Rounded(args.actual.s[j]) = Rounded(args.expected.s[j]))

\* A tuple inside containers compares equal to the list of the same elements.
C23_Witness ==
    /\ pc = "compared"
    /\ Len(args.nest) = MaxDepth
    /\ args.actual = VTuple(<<VInt(1), VInt(2)>>)
    /\ args.expected = VList(<<VInt(1), VInt(2)>>)
    /\ out[1]

(***************************************************************************)
(* compare_outputs on null and on the values nearest to it: zeros, false,  *)
(* the empty string, empty containers, containers holding null.            *)
(***************************************************************************)
NullLikeChoices ==
    {VNull, VInt(0), VInt(1), VFloat(0), VBool(FALSE), VBool(TRUE), VStr(0), VStr(1),
     VList(<<>>), VList(<<VNull>>), VDict(<<>>), VDict(<<VEntry(1, VNull)>>), VNaN}

InitNulls ==
    /\ NoRun
    /\ CalledOnce
    /\ pc = "compare"
    /\ args \in {[nest |-> <<>>, actual |-> a, expected |-> e] :
                    a \in NullLikeChoices \cup {VTuple(<<>>)}, e \in NullLikeChoices}
    /\ out = <<>>
    /\ NoStructures

NullSpec == InitNulls /\ [][CompareNext]_vars

(***************************************************************************)
(* C24.  Null comparison: with a null expected value the comparator holds  *)
(* if and only if the actual value is exactly null, so 0, false, the empty *)
(* string, an empty sequence and an empty mapping all fail; and a null     *)
(* actual value never equals a non-null expected one.                      *)
(***************************************************************************)
C24_NullComparison ==
    pc = "compared" =>
        /\ args.expected = VNull => out[1] = (args.actual = VNull)
        /\ args.actual = VNull /\ args.expected # VNull => ~out[1]

\* An empty sequence was compared with a null expected value, and failed.
C24_Witness ==
    /\ pc = "compared"
    /\ args.expected = VNull
    /\ args.actual = VList(<<>>)
    /\ ~out[1]

(***************************************************************************)
(* Test cases that leave keys out, and a candidate that changes its        *)
(* arguments in place.  The result's "input" is the very object whose      *)
(* values the call of func hands to the candidate.                        *)
(***************************************************************************)
MaxEchoTests == 1

\* The declared input after the candidate sorted its list argument in place.
MutatedInput == VDict(<<VEntry(1, VList(<<VInt(1), VInt(2)>>))>>)

EchoShapes ==
    {[mapping |-> TRUE, expected |-> e, input |-> DeclaredInput,
      explanation |-> DeclaredExplanation, absent |-> a] :
          e \in ExpectedChoices, a \in SUBSET TestKeys}
        \cup {[mapping |-> FALSE, expected |-> VNull, input |-> DeclaredInput,
                explanation |-> DeclaredExplanation, absent |-> {}]}

InitEcho ==
    /\ hasSigalrm \in BOOLEAN
    /\ problemFile \in ProblemFiles
    /\ hint \in {<<>>, <<"add">>}
    /\ testCases \in UNION {{[k \in 1..n |-> Declared(c[k], k)] : c \in [1..n -> EchoShapes]} :
                              n \in 0..MaxEchoTests}
    /\ problemFile # "ok" => testCases = <<>> /\ hint = <<>>
    /\ candidate \in Candidates
    /\ Start
    /\ CalledOnce
    /\ NoStandalone
    /\ NoStructures

\* start_time, and func(**test_input) begins: the candidate may change the
\* values of test_input in place, where it was handed any.
StartCallMutating ==
    /\ pc = "start"
    /\ \E c \in CallChoices :
        /\ call' = c
        /\ calls' = Append(calls, [id |-> testCases[idx].id, kind |-> c.kind])
    /\ \E mutates \in BOOLEAN :
        result' = IF mutates /\ result.input = DeclaredInput
                  THEN [result EXCEPT !.input = MutatedInput]
                  ELSE result
    /\ pc' = "in_call"
    /\ UNCHANGED <<inputs, execs, report, idx, func, actual, alarm, exc, printed, exitStatus>>

EchoNext ==
    \/ LoadProblem
    \/ ImportSolution
    \/ DetectFunction
    \/ NextTest
    \/ Arm
    \/ StartCallMutating
    \/ CallReturns
    \/ CallRaises
    \/ RecordTime
    \/ Disarm
    \/ RecordOutput
    \/ ExceptTimeout
    \/ ExceptException
    \/ Finally
    \/ Watchdog
    \/ AppendResult
    \/ HandleFailure
    \/ Uncaught
    \/ PrintReport
    \/ Exit

EchoSpec == InitEcho /\ [][EchoNext]_vars

(***************************************************************************)
(* C25.  Each result echoes its test case: id, input, expected and         *)
(* explanation in the result equal the values the test case declares (id   *)
(* "unknown", empty input, null expected and empty explanation where the   *)
(* key is absent), whatever the call does with its arguments; and an       *)
(* absent key never makes the run fail.                                    *)
(***************************************************************************)
C25_ResultEchoesTestCase ==
    /\ \A k \in 1..Len(Results) :
         /\ Results[k].id = Get(testCases[k], "id", UnknownId)
         /\ Results[k].input = Get(testCases[k], "input", VDict(<<>>))
         /\ Results[k].expected = Get(testCases[k], "expected", VNull)
         /\ Results[k].explanation = Get(testCases[k], "explanation", VStr(0))
    /\ exc.origin = "test_case" => ~testCases[idx].mapping

(***************************************************************************)
(* normalize_output applied twice, and compare_outputs on values and on    *)
(* their normalizations, over values of every kind inside containers.      *)
(***************************************************************************)
LeafChoices ==
    {VNull, VInt(1), VFloat(3000001), VFloat(3000005), VBool(TRUE), VStr(0), VNaN,
     VList(<<>>), VDict(<<>>)}

\* The value holds a NaN somewhere.
RECURSIVE HasNaN(_)
HasNaN(v) == v.t = "nan" \/ \E j \in 1..Len(v.s) : HasNaN(v.s[j])

InitNormalize ==
    /\ NoRun
    /\ CalledOnce
    /\ pc = "normalize"
    /\ \E a, e \in {Nested(n, v, FALSE) : n \in Nests, v \in LeafChoices} :
          args = [actual |-> a, expected |-> e]
    /\ out = <<>>
    /\ NoStructures

\* normalize_output(actual) and normalize_output(expected).
Normalize ==
    /\ pc = "normalize"
    /\ out' = <<normalize_output(args.actual), normalize_output(args.expected)>>
    /\ pc' = "normalized"
    /\ UNCHANGED <<structures, runInputs, caller, args, execs, report, idx, func, result, actual, call,
                   alarm, exc, calls, printed, exitStatus>>

\* normalize_output of the normalized actual value.
Renormalize ==
    /\ pc = "normalized"
    /\ out' = out \o <<normalize_output(out[1])>>
    /\ pc' = "renormalized"
    /\ UNCHANGED <<structures, runInputs, caller, args, execs, report, idx, func, result, actual, call,
                   alarm, exc, calls, printed, exitStatus>>

\* compare_outputs of the values, and of their normalizations.
CompareNormalized ==
    /\ pc = "renormalized"
    /\ out' = out \o <<compare_outputs(args.actual, args.expected),
                       compare_outputs(out[1], out[2])>>
    /\ pc' = "compared"
    /\ UNCHANGED <<structures, runInputs, caller, args, execs, report, idx, func, result, actual, call,
                   alarm, exc, calls, printed, exitStatus>>

NormalizeNext ==
    \/ Normalize
    \/ Renormalize
    \/ CompareNormalized

NormalizeSpec == InitNormalize /\ [][NormalizeNext]_vars

(***************************************************************************)
(* C26, as stated.  normalize_output(normalize_output(v)) ==               *)
(* normalize_output(v) for every value v of the domain, and                *)
(* compare_outputs(a, b) == compare_outputs(normalize_output(a),           *)
(* normalize_output(b)) for all values a and b.                            *)
(***************************************************************************)
C26_IdempotentForEveryValue ==
    pc = "compared" =>
        /\ PyEq(out[3], out[1])
        /\ out[4] = out[5]

(***************************************************************************)
(* C26, amended.  Normalizing twice yields the very value normalizing once *)
(* yields, for every value; the equation with == holds for every value     *)
(* that holds no NaN, and fails for every value that holds one, a NaN      *)
(* being unequal to itself; compare_outputs(a, b) ==                       *)
(* compare_outputs(normalize_output(a), normalize_output(b)) for all       *)
(* values a and b, a null or a NaN among them included.                    *)
(***************************************************************************)
C26_Idempotence ==
    pc = "compared" =>
        /\ out[3] = out[1]
        /\ PyEq(out[3], out[1]) = ~HasNaN(args.actual)
        /\ out[4] = out[5]

\* A float inside a tuple inside a tuple was normalized twice, and compared
\* equal to the list of lists holding its rounding.
C26_Witness ==
    /\ pc = "compared"
    /\ args.actual = Nested(<<"tuple", "tuple">>, VFloat(3000001), FALSE)
    /\ args.expected = Nested(<<"list", "list">>, VFloat(3000005), FALSE)
    /\ out[1] # args.actual
    /\ out[4] /\ out[5]

(***************************************************************************)
(* 12-lru-cache/solution.py: LRUCache, on an OrderedDict.                  *)
(***************************************************************************)
MaxCapacity == 3

MaxKeys == 3

MaxValues == 2

MaxOps == 5

CacheKeys == 1..MaxKeys

CacheValues == 1..MaxValues

\* None, where a value of CacheValues may stand.
None == 0

\* The keys of an OrderedDict.
KeysOf(c) == {c[j].key : j \in 1..Len(c)}

\* Where the key stands in the OrderedDict.
IndexOf(c, key) == CHOOSE j \in 1..Len(c) : c[j].key = key

\* OrderedDict.move_to_end(key).
move_to_end(c, key) ==
    LET at == IndexOf(c, key)
    IN  SubSeq(c, 1, at - 1) \o SubSeq(c, at + 1, Len(c)) \o <<c[at]>>

\* LRUCache.get: the OrderedDict it leaves and the value it returns.
LRUCache_get(c, key) ==
    IF key \notin KeysOf(c)
    THEN [cache |-> c, ret |-> None, raised |-> "none"]
    ELSE [cache |-> move_to_end(c, key), ret |-> c[IndexOf(c, key)].val, raised |-> "none"]

\* LRUCache.put: popitem(last=False) of an empty OrderedDict raises KeyError,
\* before the assignment.
LRUCache_put(c, cap, key, value) ==
    IF key \in KeysOf(c)
    THEN LET moved == move_to_end(c, key)
         IN  [cache |-> [moved EXCEPT ![Len(moved)].val = value],
              ret |-> None, raised |-> "none"]
    ELSE IF Len(c) >= cap
    THEN IF c = <<>>
         THEN [cache |-> c, ret |-> None, raised |-> "KeyError"]
         ELSE [cache |-> Append(Tail(c), [key |-> key, val |-> value]),
               ret |-> None, raised |-> "none"]
    ELSE [cache |-> Append(c, [key |-> key, val |-> value]), ret |-> None, raised |-> "none"]

\* LRUCache(capacity), with any capacity the constructor takes that is no
\* less than zero.
InitLRU ==
    /\ NoRun
    /\ CalledOnce
    /\ NoStandalone
    /\ pc = "lru_cache"
    /\ capacity \in 0..MaxCapacity
    /\ cache = <<>>
    /\ manual = <<>>
    /\ buffer = <<>>
    /\ position = 0
    /\ history = <<>>

\* The variables of a run, and of a function checked on its own.
runner == <<runInputs, caller, standalone, pc, execs, report, idx, func, result, actual, call,
            alarm, exc, calls, printed, exitStatus>>

\* cache.get(key).
CacheGet ==
    /\ Len(history) < MaxOps
    /\ \E key \in CacheKeys :
        LET r == LRUCache_get(cache, key)
        IN  /\ cache' = r.cache
            /\ history' = Append(history, [op |-> "get", key |-> key, value |-> None,
                                           ret |-> r.ret, raised |-> r.raised,
                                           before |-> cache])
    /\ UNCHANGED <<runner, capacity, manual, buffer, position>>

\* cache.put(key, value).
CachePut ==
    /\ Len(history) < MaxOps
    /\ \E key \in CacheKeys, value \in CacheValues :
        LET r == LRUCache_put(cache, capacity, key, value)
        IN  /\ cache' = r.cache
            /\ history' = Append(history, [op |-> "put", key |-> key, value |-> value,
                                           ret |-> r.ret, raised |-> r.raised,
                                           before |-> cache])
    /\ UNCHANGED <<runner, capacity, manual, buffer, position>>

LRUNext ==
    \/ CacheGet
    \/ CachePut

LRUSpec == InitLRU /\ [][LRUNext]_vars

\* The last operation applied.
Last == history[Len(history)]

\* The operations that used the key: a put of it, a get that found it.
Uses(key) ==
    {j \in 1..Len(history) :
        /\ history[j].key = key
        /\ history[j].op = "put" \/ history[j].ret # None}

\* When the key was last used, 0 if never.
LastUse(key) == IF Uses(key) = {} THEN 0 ELSE CHOOSE j \in Uses(key) : \A k \in Uses(key) : k <= j

(***************************************************************************)
(* C27.  LRUCache holds at most capacity entries after any sequence of     *)
(* get and put operations, for every capacity it can be constructed with;  *)
(* a put of a new key into a full cache stores it and evicts exactly the   *)
(* least recently used key, a get that finds its key and a put of a stored *)
(* key counting as uses; a get of an absent or evicted key returns None    *)
(* and changes nothing.                                                    *)
(***************************************************************************)
C27_LRUCacheEviction ==
    /\ Len(cache) <= capacity
    /\ \A j, k \in 1..Len(cache) : j < k => LastUse(cache[j].key) < LastUse(cache[k].key)
    /\ history # <<>> =>
        /\ Last.raised = "none"
        /\ Last.op = "put" =>
            /\ Last.key \in KeysOf(cache)
            /\ cache[IndexOf(cache, Last.key)].val = Last.value
            /\ Last.key \notin KeysOf(Last.before) /\ Len(Last.before) >= capacity =>
                KeysOf(cache) = (KeysOf(Last.before) \ {Last.before[1].key}) \cup {Last.key}
        /\ Last.op = "get" /\ Last.key \notin KeysOf(Last.before) =>
            Last.ret = None /\ cache = Last.before

(***************************************************************************)
(* 12-lru-cache/solution.py: LRUCacheManual, a hashmap from keys to the    *)
(* nodes of a doubly linked list between a dummy head and a dummy tail.    *)
(* A node is a number; a node nothing refers to any more is dropped.       *)
(***************************************************************************)
head == 0

tail == 1

\* The None of a node's prev and next.
NoNode == -1

\* Node(key, val).
Node(key, val) == [key |-> key, val |-> val, prev |-> NoNode, next |-> NoNode]

\* LRUCacheManual.__init__: the empty hashmap and the two dummies.
NewManual ==
    [cache |-> <<>>,
     nodes |-> (head :> [Node(0, 0) EXCEPT !.next = tail])
                   @@ (tail :> [Node(0, 0) EXCEPT !.prev = head])]

\* _remove(node).
remove(nodes, node) ==
    LET unlinked == [nodes EXCEPT ![nodes[node].prev].next = nodes[node].next]
    IN  [unlinked EXCEPT ![unlinked[node].next].prev = unlinked[node].prev]

\* _add_to_end(node).
add_to_end(nodes, node) ==
    LET a == [nodes EXCEPT ![node].prev = nodes[tail].prev]
        b == [a EXCEPT ![node].next = tail]
        c == [b EXCEPT ![b[tail].prev].next = node]
    IN  [c EXCEPT ![tail].prev = node]

\* LRUCacheManual.get, had it returned the value without moving the node.
LRUCacheManual_getNoMove(m, key) ==
    IF key \notin DOMAIN m.cache
    THEN [manual |-> m, ret |-> None]
    ELSE [manual |-> m, ret |-> m.nodes[m.cache[key]].val]

\* LRUCacheManual.get: the structure it leaves and the value it returns.
LRUCacheManual_get(m, key) ==
    IF key \notin DOMAIN m.cache
    THEN [manual |-> m, ret |-> None]
    ELSE LET node == m.cache[key]
         IN  [manual |-> [m EXCEPT !.nodes = add_to_end(remove(m.nodes, node), node)],
              ret |-> m.nodes[node].val]

\* The function without the key.
Without(f, key) == [k \in DOMAIN f \ {key} |-> f[k]]

\* A node that is not in use.
FreshNode(nodes) == CHOOSE n \in 2..(MaxCapacity + 3) : n \notin DOMAIN nodes

\* LRUCacheManual.put, with a capacity of at least 1.
LRUCacheManual_put(m, cap, key, value) ==
    IF key \in DOMAIN m.cache
    THEN LET node == m.cache[key]
             set == [m.nodes EXCEPT ![node].val = value]
         IN  [m EXCEPT !.nodes = add_to_end(remove(set, node), node)]
    ELSE LET full == Cardinality(DOMAIN m.cache) >= cap
             lru == m.nodes[head].next
             nodes == IF full THEN Without(remove(m.nodes, lru), lru) ELSE m.nodes
             hashmap == IF full THEN Without(m.cache, m.nodes[lru].key) ELSE m.cache
             node == FreshNode(nodes)
         IN  [cache |-> hashmap @@ (key :> node),
              nodes |-> add_to_end(nodes @@ (node :> Node(key, value)), node)]

\* LRUCache(capacity) and LRUCacheManual(capacity), capacity >= 1.
InitManual ==
    /\ NoRun
    /\ CalledOnce
    /\ NoStandalone
    /\ pc = "lru_cache"
    /\ capacity \in 1..MaxCapacity
    /\ cache = <<>>
    /\ manual = NewManual
    /\ buffer = <<>>
    /\ position = 0
    /\ history = <<>>

\* get(key) on both caches.
GetBoth ==
    /\ Len(history) < MaxOps
    /\ \E key \in CacheKeys :
        LET r == LRUCache_get(cache, key)
            mr == LRUCacheManual_get(manual, key)
        IN  /\ cache' = r.cache
            /\ manual' = mr.manual
            /\ history' = Append(history, [op |-> "get", key |-> key, value |-> None,
                                           ret |-> r.ret, raised |-> r.raised,
                                           before |-> cache, manual_ret |-> mr.ret])
    /\ UNCHANGED <<runner, capacity, buffer, position>>

\* put(key, value) on both caches.
PutBoth ==
    /\ Len(history) < MaxOps
    /\ \E key \in CacheKeys, value \in CacheValues :
        LET r == LRUCache_put(cache, capacity, key, value)
        IN  /\ cache' = r.cache
            /\ manual' = LRUCacheManual_put(manual, capacity, key, value)
            /\ history' = Append(history, [op |-> "put", key |-> key, value |-> value,
                                           ret |-> r.ret, raised |-> r.raised,
                                           before |-> cache, manual_ret |-> None])
    /\ UNCHANGED <<runner, capacity, buffer, position>>

ManualNext ==
    \/ GetBoth
    \/ PutBoth

ManualSpec == InitManual /\ [][ManualNext]_vars

\* The keys of the linked list, from the node to the tail; fuel bounds the walk.
RECURSIVE Walk(_, _, _)
Walk(nodes, node, fuel) ==
    IF node = tail \/ node = NoNode \/ fuel = 0 THEN <<>>
    ELSE <<nodes[node].key>> \o Walk(nodes, nodes[node].next, fuel - 1)

\* The keys of the linked list, from the node back to the head.
RECURSIVE WalkBack(_, _, _)
WalkBack(nodes, node, fuel) ==
    IF node = head \/ node = NoNode \/ fuel = 0 THEN <<>>
    ELSE <<nodes[node].key>> \o WalkBack(nodes, nodes[node].prev, fuel - 1)

(***************************************************************************)
(* C28.  LRUCacheManual is observationally equivalent to LRUCache: for     *)
(* every capacity >= 1 and every sequence of get and put operations        *)
(* applied to both, each get returns the same value in both, both hold the *)
(* same key/value pairs, and the linked list from head to tail lists       *)
(* exactly the keys of the hashmap, in the least-to-most-recently-used     *)
(* order of the OrderedDict.                                               *)
(***************************************************************************)
C28_ManualEquivalent ==
    LET listed == Walk(manual.nodes, manual.nodes[head].next, MaxCapacity + 2)
        reversed == [j \in 1..Len(listed) |-> listed[Len(listed) + 1 - j]]
    IN  /\ \A j \in 1..Len(history) : history[j].manual_ret = history[j].ret
        /\ DOMAIN manual.cache = KeysOf(cache)
        /\ \A j \in 1..Len(cache) :
              manual.nodes[manual.cache[cache[j].key]].val = cache[j].val
        /\ listed = [j \in 1..Len(cache) |-> cache[j].key]
        /\ \A j \in 1..Len(listed) : manual.nodes[manual.cache[listed[j]]].key = listed[j]
        /\ WalkBack(manual.nodes, manual.nodes[tail].prev, MaxCapacity + 2) = reversed

\* Both caches are full, a get made the older key the most recent one, and a
\* put of a new key then evicted the other: a later get of it returned None in
\* both.
C28_Witness ==
    /\ capacity = 2
    /\ Len(history) = 5
    /\ history[3].op = "get" /\ history[3].ret # None /\ history[3].key = history[1].key
    /\ history[4].op = "put" /\ history[4].key \notin KeysOf(history[4].before)
    /\ Len(history[4].before) = 2
    /\ history[5].op = "get" /\ history[5].key = history[2].key
    /\ history[5].ret = None /\ history[5].manual_ret = None
    /\ history[2].key # history[1].key /\ history[2].op = "put"

(***************************************************************************)
(* 13-parallel-prefix-sum/solution.py.  The Python list result[0..n-1] is  *)
(* the sequence list[1..n]: index i of the code is place i + 1.            *)
(***************************************************************************)
MaxListLen == 4

MaxNumber == 3

ListNumbers == 1..MaxNumber

\* for i in range(2 * offset - 1, n, 2 * offset): result[i] += result[i - offset],
\* from index i on.
RECURSIVE UpSweep(_, _, _)
UpSweep(list, i, offset) ==
    IF i >= Len(list) THEN list
    ELSE UpSweep([list EXCEPT ![i + 1] = @ + list[i - offset + 1]],
                 i + 2 * offset, offset)

\* while offset < n: the up-sweep of the offset; offset *= 2.
RECURSIVE UpSweeps(_, _)
UpSweeps(list, offset) ==
    IF offset < Len(list)
    THEN UpSweeps(UpSweep(list, 2 * offset - 1, offset), offset * 2)
    ELSE list

\* for i in range(2 * offset - 1, n, 2 * offset): result[left] takes result[i],
\* result[i] += the old result[left]; from index i on.
RECURSIVE DownSweep(_, _, _)
DownSweep(list, i, offset) ==
    IF i >= Len(list) THEN list
    ELSE LET left == i - offset
             temp == list[left + 1]
         IN  DownSweep([list EXCEPT ![left + 1] = list[i + 1], ![i + 1] = @ + temp],
                       i + 2 * offset, offset)

\* while offset > 0: the down-sweep of the offset; offset //= 2.
RECURSIVE DownSweeps(_, _)
DownSweeps(list, offset) ==
    IF offset > 0
    THEN DownSweeps(DownSweep(list, 2 * offset - 1, offset), offset \div 2)
    ELSE list

\* for i in range(n - 1): result[i] = result[i + 1]; result[-1] = last.
Inclusive(list, last) ==
    [j \in 1..Len(list) |-> IF j < Len(list) THEN list[j + 1] ELSE last]

\* parallel_prefix_sum: result[-1] of an empty list raises IndexError.
parallel_prefix_sum(values) ==
    LET n == Len(values)
        up == UpSweeps(values, 1)
    IN  IF n = 0 THEN [ret |-> <<>>, raised |-> "IndexError"]
        ELSE [ret |-> Inclusive(DownSweeps([up EXCEPT ![n] = 0], n \div 2), up[n]),
              raised |-> "none"]

\* simple_prefix_sum: the running totals.
RECURSIVE simple_prefix_sum(_)
simple_prefix_sum(values) ==
    IF values = <<>> THEN <<>>
    ELSE LET front == simple_prefix_sum(SubSeq(values, 1, Len(values) - 1))
         IN  Append(front, (IF front = <<>> THEN 0 ELSE front[Len(front)])
                               + values[Len(values)])

InitPrefix ==
    /\ NoRun
    /\ CalledOnce
    /\ NoStructures
    /\ pc = "prefix_sum"
    /\ \E v \in UNION {[1..n -> ListNumbers] : n \in 0..MaxListLen} : args = [values |-> v]
    /\ out = <<>>

\* parallel_prefix_sum(values), and simple_prefix_sum(values) to compare.
PrefixSum ==
    /\ pc = "prefix_sum"
    /\ out' = <<parallel_prefix_sum(args.values), simple_prefix_sum(args.values)>>
    /\ pc' = "summed"
    /\ UNCHANGED <<structures, runInputs, caller, args, execs, report, idx, func, result,
                   actual, call, alarm, exc, calls, printed, exitStatus>>

PrefixNext ==
    \/ PrefixSum

PrefixSpec == InitPrefix /\ [][PrefixNext]_vars

(***************************************************************************)
(* C29.  parallel_prefix_sum returns the same list as simple_prefix_sum,   *)
(* the inclusive running sums, for every input list of numbers, of any     *)
(* length.                                                                 *)
(***************************************************************************)
C29_ParallelEqualsSimple ==
    pc = "summed" => out[1].raised = "none" /\ out[1].ret = out[2]

(***************************************************************************)
(* 06-circular-buffer-replay/solution.py: ReplayBuffer.  The Python list   *)
(* buffer[0..len-1] is the sequence buffer[1..len]; position is the        *)
(* code's index.                                                           *)
(***************************************************************************)
MaxPushes == 7

\* ReplayBuffer.push, had position moved forward without wrapping around.
ReplayBuffer_pushNoWrap(b, at, cap, experience) ==
    [buffer |-> IF Len(b) < cap THEN Append(b, experience)
                ELSE [j \in 1..Len(b) |-> IF j = at + 1 THEN experience ELSE b[j]],
     position |-> at + 1]

\* ReplayBuffer.push: the buffer and the position it leaves.
ReplayBuffer_push(b, at, cap, experience) ==
    [buffer |-> IF Len(b) < cap THEN Append(b, experience)
                ELSE [j \in 1..Len(b) |-> IF j = at + 1 THEN experience ELSE b[j]],
     position |-> (at + 1) % cap]

\* ReplayBuffer(capacity), capacity >= 1.
InitBuffer ==
    /\ NoRun
    /\ CalledOnce
    /\ NoStandalone
    /\ pc = "replay_buffer"
    /\ capacity \in 1..MaxCapacity
    /\ cache = <<>>
    /\ manual = <<>>
    /\ buffer = <<>>
    /\ position = 0
    /\ history = <<>>

\* buffer.push(state, action, reward, next_state, done).
Push ==
    /\ Len(history) < MaxPushes
    /\ \E experience \in 1..MaxValues :
        LET r == ReplayBuffer_push(buffer, position, capacity, experience)
        IN  /\ buffer' = r.buffer
            /\ position' = r.position
            /\ history' = Append(history, [experience |-> experience, before |-> buffer,
                                           at |-> position])
    /\ UNCHANGED <<runner, capacity, cache, manual>>

BufferNext ==
    \/ Push

BufferSpec == InitBuffer /\ [][BufferNext]_vars

(***************************************************************************)
(* C30.  ReplayBuffer has fixed capacity with FIFO eviction: after any     *)
(* sequence of k pushes into a buffer of capacity c >= 1, len(buffer) ==   *)
(* min(k, c), the buffer holds exactly the min(k, c) most recently pushed  *)
(* experiences, each push into a full buffer overwrites the oldest stored  *)
(* experience and nothing else, and position equals k mod c.               *)
(***************************************************************************)
C30_ReplayBufferFIFO ==
    LET k == Len(history)
        c == capacity
    IN  /\ Len(buffer) = (IF k < c THEN k ELSE c)
        /\ position = k % c
        /\ \A i \in 1..k : i > k - c => buffer[((i - 1) % c) + 1] = history[i].experience
        /\ k > c =>
            /\ Len(Last.before) = c
            /\ Last.before[Last.at + 1] = history[k - c].experience
            /\ \A j \in 1..c : j # Last.at + 1 => buffer[j] = Last.before[j]
            /\ buffer[Last.at + 1] = Last.experience

\* A buffer of capacity 3 after 7 pushes: it wrapped around twice, and the
\* last push overwrote an experience that differs from it.
C30_Witness ==
    /\ capacity = 3
    /\ Len(history) = 7
    /\ position = 1
    /\ Last.before[1] # Last.experience
    /\ buffer[1] = Last.experience

====
